---- MODULE Spec2Model ----
(***************************************************************************)
(* The realtime audio session engine of src/App.tsx: the session state     *)
(* machine (startSession / stopSession and the transport callbacks), the   *)
(* playback scheduler inside onmessage, and the transcript aggregator.     *)
(*                                                                         *)
(* Time is counted in whole ticks.  ctx.currentTime and Date.now() are two *)
(* readings of the same physical time, modelled by the one variable clock. *)
(* React state (status, transcriptions, liveUserText, liveModelText,       *)
(* errorMessage) is modelled by the value the queued updaters produce when *)
(* they are applied in the order they were issued.                         *)
(***************************************************************************)
EXTENDS Integers, Sequences, FiniteSets, TLC

\* ---------------------------------------------------------------- bounds
MaxStarts == 2      \* startSession invocations in one behaviour
MaxMsgs   == 2      \* inbound messages delivered in one behaviour
MaxUnits  == 2      \* audio parts delivered in one behaviour
MaxDur    == 1      \* longest decoded buffer, in ticks
MaxClock  == 2      \* the clock stops advancing here
MaxFrames == 2      \* audio blocks captured in one behaviour

\* ---------------------------------------------------- program constants
MaxLog == 15        \* slice(-15)

\* ------------------------------------------------------------- helpers
Max(a, b) == IF a >= b THEN a ELSE b

Starts == 1..MaxStarts
Hs     == 1..MaxMsgs

\* A text is a sequence of characters; " " is the only whitespace used.
Frags == { <<"a">>, <<" ">> }
NoText == << >>

\* String.prototype.trim() leaves a non-empty string
NonBlank(t) == \E i \in 1..Len(t) : t[i] # " "

\* An audio part is modelled by what decoding it yields: 0 is a malformed
\* payload (decodeAudioData rejects), d > 0 a buffer lasting d ticks.
Payloads == 0..MaxDur
DecodeOk(p) == p > 0
Duration(p) == p

RECURSIVE SeqsUpTo(_, _)
SeqsUpTo(S, n) ==
  IF n = 0 THEN { << >> }
  ELSE LET shorter == SeqsUpTo(S, n - 1)
       IN  shorter \cup { Append(s, x) : s \in { t \in shorter : Len(t) = n - 1 }, x \in S }

\* LiveServerMessage, reduced to the fields onmessage reads
Msg(parts, outT, inT, tc, intr) ==
  [parts |-> parts, outT |-> outT, inT |-> inT, turnComplete |-> tc, interrupted |-> intr]

EmptyMsg == Msg(<< >>, NoText, NoText, FALSE, FALSE)

Fields(m) ==
  (IF m.parts # << >> THEN 1 ELSE 0) + (IF m.outT # NoText THEN 1 ELSE 0)
  + (IF m.inT # NoText THEN 1 ELSE 0) + (IF m.turnComplete THEN 1 ELSE 0)
  + (IF m.interrupted THEN 1 ELSE 0)

\* The messages the transport delivers in Spec: one or two populated fields.
Msgs ==
  { m \in [parts : SeqsUpTo(Payloads, MaxUnits), outT : Frags \cup {NoText},
           inT : Frags \cup {NoText}, turnComplete : BOOLEAN, interrupted : BOOLEAN] :
      Fields(m) \in {1, 2} }

\* ------------------------------------------------------------ variables
VARIABLES
  status,          \* useState<AppStatus>
  errorMessage,    \* useState<string | null>: "none", "link" or "mic"
  transcriptions,  \* useState<TranscriptionEntry[]>
  liveUserText,    \* useState('')
  liveModelText,   \* useState('')
  sessionRef,      \* 0 is null, otherwise the invocation whose session it holds
  scriptProcessorRef, \* 0 is null, otherwise the invocation whose processor it holds
  nextStartTime,   \* nextStartTimeRef.current
  sources,         \* sourcesRef.current: the units in the active-set
  ctx,             \* outputAudioContextRef: "null", "suspended" or "running"
  clock,           \* ctx.currentTime / Date.now()
  starts,          \* startSession invocations so far
  pc,              \* per invocation: where startSession stands
  tr,              \* per invocation: the remote session's transport
  nMsgs,           \* inbound messages delivered so far (arrival index)
  nParts,          \* audio parts delivered so far
  handlers,        \* per arrival index: the suspended onmessage handler
  stopped,         \* units stop()ped and dropped from the set, their onended still to fire
  last,            \* the unit scheduled last (NoUnit before the first)
  intrMax,         \* highest arrival index among the interruption events processed
  intrAt,          \* clock of the last interruption, -1 once anything is scheduled or stopped after it
  wired,           \* invocations whose onopen has set onaudioprocess and connected the processor
  recvUser,        \* the user fragments received since the last turn completion or stop
  recvModel,       \* the model fragments received since the last turn completion or stop
  want,            \* the log built from the received fragments at each turn completion
  lastTurn,        \* what the latest message did to the log, if it completed a turn
  capturing,       \* invocations whose processor is connected, its onaudioprocess firing
  queued,          \* per invocation: the reactions registered on sessionPromise, in order
  sent,            \* per invocation: what sendRealtimeInput has been called with, in order
  nFrames          \* audio blocks captured so far

textVars  == << transcriptions, liveUserText, liveModelText >>
heardVars == << recvUser, recvModel, want, lastTurn >>
audioVars == << sources, stopped, last, nextStartTime, intrAt >>
sessVars  == << status, errorMessage, sessionRef, scriptProcessorRef, starts, pc, tr, wired >>
inVars    == << nMsgs, nParts, handlers, intrMax >>
outVars   == << capturing, queued, sent, nFrames >>

vars == << textVars, heardVars, audioVars, sessVars, inVars, outVars, ctx, clock >>

\* An AudioBufferSourceNode that has been start()ed: when it plays, and the
\* message (arrival index) and part it was decoded from.
Unit(start, dur, h, k) == [start |-> start, dur |-> dur, msg |-> h, part |-> k]
NoUnit == [unit |-> Unit(0, 0, 0, 0), stopped |-> FALSE]

NoHandler == [st |-> "none", k |-> 0, m |-> EmptyMsg]

NoTurn == [added |-> -1, dropped |-> 0]

Init ==
  /\ status = "IDLE"
  /\ errorMessage = "none"
  /\ transcriptions = << >>
  /\ liveUserText = << >>
  /\ liveModelText = << >>
  /\ sessionRef = 0
  /\ scriptProcessorRef = 0
  /\ nextStartTime = 0
  /\ sources = {}
  /\ ctx = "null"
  /\ clock = 0
  /\ starts = 0
  /\ pc = [i \in Starts |-> "none"]
  /\ tr = [i \in Starts |-> "none"]
  /\ nMsgs = 0
  /\ nParts = 0
  /\ handlers = [h \in Hs |-> NoHandler]
  /\ stopped = {}
  /\ last = NoUnit
  /\ intrMax = 0
  /\ intrAt = -1
  /\ wired = {}
  /\ recvUser = << >>
  /\ recvModel = << >>
  /\ want = << >>
  /\ lastTurn = NoTurn
  /\ capturing = {}
  /\ queued = [i \in Starts |-> << >>]
  /\ sent = [i \in Starts |-> << >>]
  /\ nFrames = 0

\* ------------------------------------------------- playback scheduler
\* A variant that ignores NextStartTime
ScheduleTimeNow(nst, now) == now

\* const scheduleTime = Math.max(nextStartTimeRef.current, ctx.currentTime)
ScheduleTime(nst, now) == Max(nst, now)

\* A variant that does not advance
NextAfterStart(start, dur) == start

\* nextStartTimeRef.current = scheduleTime + audioBuffer.duration
NextAfter(start, dur) == start + dur

\* A variant that resets to zero
InterruptResetZero(now) == 0

\* nextStartTimeRef.current = outputAudioContextRef.current?.currentTime || 0
InterruptReset(now) == IF ctx # "null" /\ now # 0 THEN now ELSE 0

UnitEnd(u) == u.start + u.dur

AudioNow ==
  [sources |-> sources, stopped |-> stopped, last |-> last,
   nst |-> nextStartTime, intrAt |-> intrAt]

SetAudio(a) ==
  /\ sources' = a.sources
  /\ stopped' = a.stopped
  /\ last' = a.last
  /\ nextStartTime' = a.nst
  /\ intrAt' = a.intrAt

\* sourcesRef.current.forEach(s => { try { s.stop(); } catch(e) {} });
\* sourcesRef.current.clear(), on the audio state a
StopAll(a) ==
  [a EXCEPT !.sources = {},
            !.stopped = a.stopped \cup a.sources,
            !.last = IF a.last.unit \in a.sources THEN [a.last EXCEPT !.stopped = TRUE]
                     ELSE a.last]

\* createBufferSource ... start(scheduleTime) ... sourcesRef.current.add(sourceNode)
\* for part k of the message that arrived h-th; a is the audio state before.
Scheduled(a, h, k, p) ==
  LET start == ScheduleTime(a.nst, clock)
      unit  == Unit(start, Duration(p), h, k)
  IN  [a EXCEPT !.sources = a.sources \cup {unit},
                !.last = [unit |-> unit, stopped |-> FALSE],
                !.nst = NextAfter(start, Duration(p)),
                !.intrAt = -1]

\* if (message.serverContent?.interrupted) { stop all; clear; reset }
Interrupted(a, m) ==
  IF m.interrupted
    THEN [StopAll(a) EXCEPT !.nst = InterruptReset(clock), !.intrAt = clock]
    ELSE a

\* ------------------------------------------------ transcript aggregator
\* if (outputTranscription) setLiveModelText(prev => prev + text)
\* else if (inputTranscription) setLiveUserText(prev => prev + text)
ModelTextAfter(m, t) == IF m.outT # NoText THEN t \o m.outT ELSE t
UserTextAfter(m, t) == IF m.outT = NoText /\ m.inT # NoText THEN t \o m.inT ELSE t

Entry(role, text, now) == [role |-> role, text |-> text, timestamp |-> now]

\* A variant that tests the length instead of trim()
NewEntriesUntrimmed(user, model, now) ==
  (IF user # << >> THEN << Entry("user", user, now) >> ELSE << >>)
  \o (IF model # << >> THEN << Entry("model", model, now) >> ELSE << >>)

\* if (current.trim()) newEntries.push({ role, text: current, timestamp: Date.now() })
\* for the user text, then for the model text
NewEntries(user, model, now) ==
  (IF NonBlank(user) THEN << Entry("user", user, now) >> ELSE << >>)
  \o (IF NonBlank(model) THEN << Entry("model", model, now) >> ELSE << >>)

\* A variant that keeps one entry too many
SliceLastOffByOne(s, n) == IF Len(s) <= n THEN s ELSE SubSeq(s, Len(s) - n, Len(s))

\* Array.prototype.slice(-n)
SliceLast(s, n) == IF Len(s) <= n THEN s ELSE SubSeq(s, Len(s) - n + 1, Len(s))

\* A variant that puts the new entries in front
FinalizedInFront(prev, newEntries) == SliceLast(newEntries \o prev, MaxLog)

\* return [...prev, ...newEntries].slice(-15)
Finalized(prev, newEntries) == SliceLast(prev \o newEntries, MaxLog)

\* How many entries a turn completion added to the log prev and how many it
\* evicted from it
TurnDid(prev, newEntries) ==
  [added |-> Len(newEntries),
   dropped |-> Len(prev) + Len(newEntries) - Len(Finalized(prev, newEntries))]

\* The synchronous rest of onmessage after the audio parts: the partial
\* text, then turnComplete.  ru and rm are the fragments received so far.
TextTail(m, ru, rm) ==
  LET user  == UserTextAfter(m, liveUserText)
      model == ModelTextAfter(m, liveModelText)
  IN  IF m.turnComplete
        THEN /\ transcriptions' = Finalized(transcriptions, NewEntries(user, model, clock))
             /\ liveUserText' = << >>
             /\ liveModelText' = << >>
             /\ want' = SliceLast(want \o NewEntries(ru, rm, clock), MaxLog)
             /\ recvUser' = << >>
             /\ recvModel' = << >>
             /\ lastTurn' = TurnDid(transcriptions, NewEntries(user, model, clock))
        ELSE /\ transcriptions' = transcriptions
             /\ liveUserText' = user
             /\ liveModelText' = model
             /\ want' = want
             /\ recvUser' = ru
             /\ recvModel' = rm
             /\ lastTurn' = NoTurn

\* What a handler does from the end of its audio parts to its return, h being
\* the arrival index of its message and a the audio state it has produced.
HandlerRest(m, h, a, ru, rm) ==
  /\ TextTail(m, ru, rm)
  /\ SetAudio(Interrupted(a, m))
  /\ intrMax' = IF m.interrupted THEN Max(intrMax, h) ELSE intrMax

\* Where a handler waits before part k: if (ctx.state === 'suspended') await
\* ctx.resume(), otherwise straight on to await decodeAudioData(...)
Waiting(m, k) == [st |-> IF ctx = "suspended" THEN "resume" ELSE "decode", k |-> k, m |-> m]

\* ------------------------------------------------------------ onmessage
\* The handler of the message that arrived h-th, run to its first await (or
\* to its return, when the message carries no audio part).
OnMessage(m, h) ==
  IF m.parts = << >>
    THEN /\ HandlerRest(m, h, AudioNow, recvUser \o m.inT, recvModel \o m.outT)
         /\ UNCHANGED handlers
    ELSE /\ handlers' = [handlers EXCEPT ![h] = Waiting(m, 1)]
         /\ recvUser' = recvUser \o m.inT
         /\ recvModel' = recvModel \o m.outT
         /\ UNCHANGED << textVars, want, lastTurn, audioVars, intrMax >>

\* The transport delivers message m to the callbacks of invocation i.
Deliver(i, m) ==
  /\ tr[i] = "open"
  /\ nMsgs < MaxMsgs
  /\ nParts + Len(m.parts) <= MaxUnits
  /\ nMsgs' = nMsgs + 1
  /\ nParts' = nParts + Len(m.parts)
  /\ OnMessage(m, nMsgs + 1)
  /\ UNCHANGED << sessVars, outVars, ctx, clock >>

\* The same for a message of a turn (a fragment for an empty accumulator, or
\* a turn completion), however many came before: no arrival index is drawn.
DeliverTurn(i, m) ==
  /\ tr[i] = "open"
  /\ m.inT # NoText => liveUserText = << >>
  /\ m.outT # NoText => liveModelText = << >>
  /\ OnMessage(m, nMsgs + 1)
  /\ UNCHANGED << nMsgs, nParts, sessVars, outVars, ctx, clock >>

\* ctx.resume() settles: the graph runs again and every handler awaiting it
\* goes on to its decode.
Woken(hs) == [h \in Hs |-> IF hs[h].st = "resume" THEN [hs[h] EXCEPT !.st = "decode"] ELSE hs[h]]

CtxResumed ==
  /\ ctx = "suspended"
  /\ \E h \in Hs : handlers[h].st = "resume"
  /\ ctx' = "running"
  /\ handlers' = Woken(handlers)
  /\ UNCHANGED << textVars, heardVars, audioVars, sessVars, outVars, nMsgs, nParts, intrMax,
                  clock >>

\* await decodeAudioData(...) settles for handler h: a malformed payload
\* rejects and ends the handler; otherwise the unit is scheduled and the
\* handler goes on to its next part or to its rest.
HandlerDecoded(h) ==
  /\ handlers[h].st = "decode"
  /\ LET m == handlers[h].m
         k == handlers[h].k
         p == m.parts[k]
     IN  IF ~DecodeOk(p)
           THEN /\ handlers' = [handlers EXCEPT ![h] = NoHandler]
                /\ UNCHANGED << textVars, heardVars, audioVars, intrMax >>
           ELSE IF k < Len(m.parts)
             THEN /\ handlers' = [handlers EXCEPT ![h] = Waiting(m, k + 1)]
                  /\ SetAudio(Scheduled(AudioNow, h, k, p))
                  /\ UNCHANGED << textVars, heardVars, intrMax >>
             ELSE /\ handlers' = [handlers EXCEPT ![h] = NoHandler]
                  /\ HandlerRest(m, h, Scheduled(AudioNow, h, k, p), recvUser, recvModel)
  /\ UNCHANGED << sessVars, outVars, nMsgs, nParts, ctx, clock >>

\* sourceNode.onended = () => { sourcesRef.current.delete(sourceNode); }
\* fires once the unit has played to its end or has been stopped.
OnEnded(u) ==
  /\ \/ u \in stopped
     \/ u \in sources /\ clock >= UnitEnd(u)
  /\ stopped' = stopped \ {u}
  /\ sources' = sources \ {u}
  /\ UNCHANGED << textVars, heardVars, last, nextStartTime, intrAt, sessVars, inVars,
                  outVars, ctx, clock >>

\* The output clock advances while the graph runs.
Tick ==
  /\ ctx = "running"
  /\ clock < MaxClock
  /\ clock' = clock + 1
  /\ UNCHANGED << textVars, heardVars, audioVars, sessVars, inVars, outVars, ctx >>

\* The browser suspends the output graph.
CtxSuspend ==
  /\ ctx = "running"
  /\ ctx' = "suspended"
  /\ UNCHANGED << textVars, heardVars, audioVars, sessVars, inVars, outVars, clock >>

\* ------------------------------------------------ session state machine
\* A variant that is not idempotent: run when already IDLE, it fails
StopSessionOnce(trNow) ==
  /\ tr' = IF sessionRef # 0 /\ trNow[sessionRef] = "open"
             THEN [trNow EXCEPT ![sessionRef] = "closing"]
             ELSE trNow
  /\ sessionRef' = 0
  /\ scriptProcessorRef' = 0
  /\ capturing' = capturing \ {scriptProcessorRef}
  /\ SetAudio([StopAll(AudioNow) EXCEPT !.nst = 0, !.intrAt = -1])
  /\ status' = IF status = "IDLE" THEN "ERROR" ELSE "IDLE"
  /\ liveUserText' = << >>
  /\ liveModelText' = << >>
  /\ recvUser' = << >>
  /\ recvModel' = << >>
  /\ UNCHANGED << transcriptions, want, lastTurn, starts, pc, wired, inVars, queued, sent,
                  nFrames, ctx, clock >>

\* stopSession(), with trNow the transports as the calling callback leaves
\* them: close() on the held session, disconnect the processor, stop and
\* forget every unit, back to IDLE with empty partial texts and a zero
\* NextStartTime.
StopSession(trNow) ==
  /\ tr' = IF sessionRef # 0 /\ trNow[sessionRef] = "open"
             THEN [trNow EXCEPT ![sessionRef] = "closing"]
             ELSE trNow
  /\ sessionRef' = 0
  /\ scriptProcessorRef' = 0
  /\ capturing' = capturing \ {scriptProcessorRef}
  /\ SetAudio([StopAll(AudioNow) EXCEPT !.nst = 0, !.intrAt = -1])
  /\ status' = "IDLE"
  /\ liveUserText' = << >>
  /\ liveModelText' = << >>
  /\ recvUser' = << >>
  /\ recvModel' = << >>
  /\ UNCHANGED << transcriptions, want, lastTurn, starts, pc, wired, inVars, queued, sent,
                  nFrames, ctx, clock >>

\* A variant with the start button always there and enabled
CanStartAlways(st) == TRUE

\* The start button is rendered unless ACTIVE and disabled while CONNECTING
CanStart(st) == st \in {"IDLE", "ERROR"}

\* The start button runs startSession to its first await.
StartSession ==
  /\ CanStart(status)
  /\ starts < MaxStarts
  /\ starts' = starts + 1
  /\ status' = "CONNECTING"
  /\ errorMessage' = "none"
  /\ ctx' = IF ctx = "null" THEN "suspended" ELSE ctx
  /\ pc' = [pc EXCEPT ![starts + 1] = "resume"]
  /\ UNCHANGED << textVars, heardVars, audioVars, sessionRef, scriptProcessorRef, tr,
                  wired, inVars, outVars, clock >>

\* await Promise.all([input.resume(), output.resume()]) settles
StartResumed(i) ==
  /\ pc[i] = "resume"
  /\ ctx' = "running"
  /\ handlers' = Woken(handlers)
  /\ pc' = [pc EXCEPT ![i] = "mic"]
  /\ UNCHANGED << textVars, heardVars, audioVars, status, errorMessage, sessionRef,
                  scriptProcessorRef, starts, tr, wired, nMsgs, nParts, intrMax, outVars,
                  clock >>

\* getUserMedia resolves: the processor is created and stored, connect() is
\* called, and startSession awaits the session promise.
MicGranted(i) ==
  /\ pc[i] = "mic"
  /\ scriptProcessorRef' = i
  /\ tr' = [tr EXCEPT ![i] = "connecting"]
  /\ pc' = [pc EXCEPT ![i] = "connect"]
  /\ UNCHANGED << textVars, heardVars, audioVars, status, errorMessage, sessionRef,
                  starts, wired, inVars, outVars, ctx, clock >>

\* A variant of the catch that leaves the state as it is
CaughtStill(i) ==
  /\ errorMessage' = "mic"
  /\ status' = status
  /\ pc' = [pc EXCEPT ![i] = "done"]

\* A variant that swallows the failure
CaughtSilently(i) ==
  /\ errorMessage' = errorMessage
  /\ status' = "IDLE"
  /\ pc' = [pc EXCEPT ![i] = "done"]

\* catch (err): setErrorMessage('SUPRA requires microphone access ...'); ERROR
Caught(i) ==
  /\ errorMessage' = "mic"
  /\ status' = "ERROR"
  /\ pc' = [pc EXCEPT ![i] = "done"]

\* getUserMedia rejects
MicDenied(i) ==
  /\ pc[i] = "mic"
  /\ Caught(i)
  /\ UNCHANGED << textVars, heardVars, audioVars, sessionRef, scriptProcessorRef,
                  starts, tr, wired, inVars, outVars, ctx, clock >>

\* What sendRealtimeInput is called with: the greeting text, or the blob of
\* the n-th captured block
Greeting == [kind |-> "text", n |-> 0]
Frame(n) == [kind |-> "media", n |-> n]

\* A variant that registers the reaction in front of the others
ThenFirst(q, x) == << x >> \o q

\* sessionPromise.then(session => session.sendRealtimeInput(x)): reactions on
\* one promise run in the order they were registered
Then(q, x) == Append(q, x)

\* A variant of onopen without the greeting
GreetingForgotten(q) == q

\* sessionPromise.then(session => session.sendRealtimeInput({ text: "HI ..." }))
GreetingRegistered(q) == Then(q, Greeting)

\* Whether sessionPromise is fulfilled, as startSession's own await saw it
Fulfilled(i) == pc[i] = "done" /\ i \in wired

\* scriptProcessor.onaudioprocess of invocation i fires with the next block:
\* the send is registered on sessionPromise, and runs at once when the promise
\* is already fulfilled.
OnAudioProcess(i) ==
  /\ i \in capturing
  /\ nFrames < MaxFrames
  /\ nFrames' = nFrames + 1
  /\ IF Fulfilled(i)
       THEN /\ sent' = [sent EXCEPT ![i] = Then(sent[i], Frame(nFrames + 1))]
            /\ UNCHANGED queued
       ELSE /\ queued' = [queued EXCEPT ![i] = Then(queued[i], Frame(nFrames + 1))]
            /\ UNCHANGED sent
  /\ UNCHANGED << textVars, heardVars, audioVars, sessVars, inVars, capturing, ctx, clock >>

\* onopen: ACTIVE, the capture callback is wired and the greeting registered
OnOpen(i) ==
  /\ tr[i] = "connecting"
  /\ tr' = [tr EXCEPT ![i] = "open"]
  /\ status' = "ACTIVE"
  /\ wired' = wired \cup {i}
  /\ capturing' = capturing \cup {i}
  /\ queued' = [queued EXCEPT ![i] = GreetingRegistered(queued[i])]
  /\ UNCHANGED << textVars, heardVars, audioVars, errorMessage, sessionRef,
                  scriptProcessorRef, starts, pc, inVars, sent, nFrames, ctx, clock >>

\* sessionRef.current = await sessionPromise, the promise fulfilled
ConnectResolved(i) ==
  /\ pc[i] = "connect"
  /\ i \in wired
  /\ sessionRef' = i
  /\ pc' = [pc EXCEPT ![i] = "done"]
  /\ sent' = [sent EXCEPT ![i] = sent[i] \o queued[i]]
  /\ queued' = [queued EXCEPT ![i] = << >>]
  /\ UNCHANGED << textVars, heardVars, audioVars, status, errorMessage,
                  scriptProcessorRef, starts, tr, wired, inVars, capturing, nFrames, ctx,
                  clock >>

\* await sessionPromise, the promise rejected: the session never opened
ConnectRejected(i) ==
  /\ pc[i] = "connect"
  /\ i \notin wired
  /\ tr' = [tr EXCEPT ![i] = "closed"]
  /\ Caught(i)
  /\ UNCHANGED << textVars, heardVars, audioVars, sessionRef, scriptProcessorRef,
                  starts, wired, inVars, outVars, ctx, clock >>

\* onerror: setErrorMessage('SUPRA neural link disrupted.'); stopSession()
OnError(i) ==
  /\ tr[i] \in {"connecting", "open"}
  /\ errorMessage' = "link"
  /\ StopSession([tr EXCEPT ![i] = "closing"])

\* onclose: () => stopSession()
OnClose(i) ==
  /\ tr[i] \in {"connecting", "open", "closing"}
  /\ StopSession([tr EXCEPT ![i] = "closed"])
  /\ UNCHANGED errorMessage

\* The stop button, shown while ACTIVE
StopClicked ==
  /\ status = "ACTIVE"
  /\ StopSession(tr)
  /\ UNCHANGED errorMessage

\* --------------------------------------------------------- specifications
\* The inbound messages of each environment.
AudioMsgs ==
  { m \in Msgs : /\ m.outT = NoText /\ m.inT = NoText /\ ~m.turnComplete
                 /\ \A k \in 1..Len(m.parts) : DecodeOk(m.parts[k]) }

TextMsgs == { m \in Msgs : m.parts = << >> }

TurnMsgs ==
  { Msg(<< >>, NoText, <<"a">>, FALSE, FALSE), Msg(<< >>, <<"a">>, NoText, FALSE, FALSE),
    Msg(<< >>, NoText, NoText, TRUE, FALSE) }

Next ==
  \/ StartSession
  \/ \E i \in Starts : StartResumed(i)
  \/ \E i \in Starts : MicGranted(i)
  \/ \E i \in Starts : MicDenied(i)
  \/ \E i \in Starts : OnOpen(i)
  \/ \E i \in Starts : ConnectResolved(i)
  \/ \E i \in Starts : ConnectRejected(i)
  \/ \E i \in Starts : OnError(i)
  \/ \E i \in Starts : OnClose(i)
  \/ StopClicked
  \/ \E i \in Starts, m \in Msgs : Deliver(i, m)
  \/ CtxResumed
  \/ \E h \in Hs : HandlerDecoded(h)
  \/ \E u \in sources \cup stopped : OnEnded(u)
  \/ \E i \in Starts : OnAudioProcess(i)
  \/ Tick
  \/ CtxSuspend

Spec == Init /\ [][Next]_vars

\* The playback scheduler under audio and interruption events, in and after
\* one session.
NextAudio ==
  \/ starts = 0 /\ StartSession
  \/ \E i \in Starts : StartResumed(i)
  \/ \E i \in Starts : MicGranted(i)
  \/ \E i \in Starts : OnOpen(i)
  \/ \E i \in Starts : ConnectResolved(i)
  \/ StopClicked
  \/ \E i \in Starts, m \in AudioMsgs : Deliver(i, m)
  \/ CtxResumed
  \/ \E h \in Hs : HandlerDecoded(h)
  \/ \E u \in sources \cup stopped : OnEnded(u)
  \/ Tick
  \/ CtxSuspend

SpecAudio == Init /\ [][NextAudio]_vars

\* The transcript aggregator under text, turn-completion and interruption
\* events, across stops, errors and new starts.
NextText ==
  \/ StartSession
  \/ \E i \in Starts : StartResumed(i)
  \/ \E i \in Starts : MicGranted(i)
  \/ \E i \in Starts : MicDenied(i)
  \/ \E i \in Starts : OnOpen(i)
  \/ \E i \in Starts : ConnectResolved(i)
  \/ \E i \in Starts : ConnectRejected(i)
  \/ \E i \in Starts : OnError(i)
  \/ \E i \in Starts : OnClose(i)
  \/ StopClicked
  \/ \E i \in Starts, m \in TextMsgs : Deliver(i, m)
  \/ Tick

SpecText == Init /\ [][NextText]_vars

\* The transcript log over many turns of one session.
NextLog ==
  \/ starts = 0 /\ StartSession
  \/ \E i \in Starts : StartResumed(i)
  \/ \E i \in Starts : MicGranted(i)
  \/ \E i \in Starts : OnOpen(i)
  \/ \E i \in Starts : ConnectResolved(i)
  \/ \E i \in Starts, m \in TurnMsgs : DeliverTurn(i, m)

SpecLog == Init /\ [][NextLog]_vars

\* The session state machine with its resources: every start, stop and
\* transport callback, capture, and a session that speaks (one audio chunk or
\* one model fragment per message).
LifeMsgs ==
  { Msg(<< MaxDur >>, NoText, NoText, FALSE, FALSE), Msg(<< >>, <<"a">>, NoText, FALSE, FALSE) }

NextLife ==
  \/ StartSession
  \/ \E i \in Starts : StartResumed(i)
  \/ \E i \in Starts : MicGranted(i)
  \/ \E i \in Starts : MicDenied(i)
  \/ \E i \in Starts : OnOpen(i)
  \/ \E i \in Starts : ConnectResolved(i)
  \/ \E i \in Starts : ConnectRejected(i)
  \/ \E i \in Starts : OnError(i)
  \/ \E i \in Starts : OnClose(i)
  \/ StopClicked
  \/ \E i \in Starts, m \in LifeMsgs : Deliver(i, m)
  \/ \E h \in Hs : HandlerDecoded(h)
  \/ \E u \in sources \cup stopped : OnEnded(u)
  \/ \E i \in Starts : OnAudioProcess(i)
  \/ Tick

SpecLife == Init /\ [][NextLife]_vars

\* The playback scheduler under audio chunks of which some are malformed.
CodecMsgs ==
  { m \in Msgs : m.outT = NoText /\ m.inT = NoText /\ ~m.turnComplete /\ ~m.interrupted }

NextCodec ==
  \/ starts = 0 /\ StartSession
  \/ \E i \in Starts : StartResumed(i)
  \/ \E i \in Starts : MicGranted(i)
  \/ \E i \in Starts : OnOpen(i)
  \/ \E i \in Starts : ConnectResolved(i)
  \/ \E i \in Starts, m \in CodecMsgs : Deliver(i, m)
  \/ \E h \in Hs : HandlerDecoded(h)
  \/ \E u \in sources \cup stopped : OnEnded(u)
  \/ Tick

SpecCodec == Init /\ [][NextCodec]_vars

\* ------------------------------------------------------------- claims
Before(u, v) == u.msg < v.msg \/ (u.msg = v.msg /\ u.part < v.part)

\* A step that schedules a unit
Schedules == last'.unit # last.unit

\* C1: within a session, every unit is scheduled to start no earlier than the
\* unit scheduled before it starts and no earlier than that unit ends, unless
\* that unit has been stopped; and no two units of the active-set overlap.
C1_NoOverlap ==
  /\ [](\A u, v \in sources : u = v \/ UnitEnd(u) <= v.start \/ UnitEnd(v) <= u.start)
  /\ [][(Schedules /\ last.unit.msg # 0 /\ ~last.stopped)
          => /\ last'.unit.start >= last.unit.start
             /\ last'.unit.start >= UnitEnd(last.unit)]_vars

C1_Witness ==
  \E u, v \in sources : u # v /\ ~last.stopped /\ last.unit = v /\ v.start >= UnitEnd(u)

\* C2: a newly scheduled unit starts at max(NextStartTime, clock) and
\* NextStartTime becomes its end (unless the same message also interrupts);
\* scheduled while the clock has not passed the end of the unit before it, it
\* starts exactly at that end.
C2_StartIsMax ==
  [][Schedules
       => /\ last'.unit.start = Max(nextStartTime, clock)
          /\ intrAt' = -1 => nextStartTime' = last'.unit.start + last'.unit.dur
          /\ (last.unit.msg # 0 /\ ~last.stopped /\ clock <= UnitEnd(last.unit))
               => last'.unit.start = UnitEnd(last.unit)]_vars

C2_Witness ==
  \E u, v \in sources : /\ u.start = 0 /\ v.start = UnitEnd(u) /\ last.unit = v
                        /\ nextStartTime = UnitEnd(v) /\ clock < UnitEnd(u)

\* C3: the units of the active-set play in the order in which their chunks
\* arrived.
C3_ArrivalOrder == \A u, v \in sources : Before(u, v) => UnitEnd(u) <= v.start

\* C4: after an interruption, and until something is scheduled or the session
\* is stopped, the active-set is empty and NextStartTime is the clock of the
\* interruption, whatever on-complete callbacks fire meanwhile.
C4_AfterInterrupt == intrAt # -1 => (sources = {} /\ nextStartTime = intrAt)

C4_Witness == intrAt > 0 /\ last.stopped /\ stopped = {} /\ clock > intrAt

\* C5: no unit of the active-set comes from a chunk that arrived before an
\* interruption already processed.
C5_NoStaleAudio == \A u \in sources : u.msg > intrMax

\* C6: a step that processes an interruption leaves both partial-text
\* accumulators empty.
C6_InterruptClears ==
  [][intrMax' > intrMax => (liveUserText' = << >> /\ liveModelText' = << >>)]_vars

\* C7: the log is, at every turn completion, extended by one entry per
\* non-blank role holding the concatenation of all the fragments received for
\* that role since the previous turn completion, user before model.
C7_AllFragments == transcriptions = want

\* C8: the log never holds more than 15 entries, and a step that changes it
\* evicts entries only from its front and only down to 15.
C8_LogBounded ==
  /\ [](Len(transcriptions) <= MaxLog)
  /\ [][transcriptions' # transcriptions
          => \E k \in 0..Len(transcriptions), j \in 1..2 :
               /\ Len(transcriptions') = Len(transcriptions) - k + j
               /\ \A i \in 1..(Len(transcriptions) - k) :
                    transcriptions'[i] = transcriptions[k + i]
               /\ k > 0 => Len(transcriptions') = MaxLog]_vars

C8_Witness ==
  /\ Len(transcriptions) = MaxLog
  /\ lastTurn.added = 2
  /\ lastTurn.dropped = 2
  /\ transcriptions[MaxLog - 1].role = "user"
  /\ transcriptions[MaxLog].role = "model"

TurnCompletions == { m \in TextMsgs : m.turnComplete }

\* C9: the delivery of a turn completion that finds both accumulators blank
\* (the fragment of the same message included) leaves the log as it was: a
\* step that changes the log is no such delivery.
C9_BlankTurn ==
  [][transcriptions' = transcriptions
     \/ \A i \in Starts, m \in TurnCompletions :
          ~(/\ ~NonBlank(UserTextAfter(m, liveUserText))
            /\ ~NonBlank(ModelTextAfter(m, liveModelText))
            /\ Deliver(i, m))]_vars

C9_Witness ==
  /\ lastTurn.added = 0
  /\ transcriptions # << >>
  /\ status = "ACTIVE"

\* C10: across every step the log keeps its entries in order: the log after
\* the step is the log before it, less entries evicted from the front at the
\* bound, followed by the new entries.
C10_AppendOnly ==
  [][\E k \in 0..Len(transcriptions) :
       /\ k > 0 => Len(transcriptions') = MaxLog
       /\ Len(transcriptions') >= Len(transcriptions) - k
       /\ \A j \in 1..(Len(transcriptions) - k) :
            transcriptions'[j] = transcriptions[k + j]]_vars

C10_Witness ==
  /\ Len(transcriptions) = 2
  /\ starts = 2
  /\ status = "ACTIVE"
  /\ errorMessage = "none"
  /\ lastTurn.added = 1

\* A step that runs stopSession from the stop button or from onclose
StopStep == StopClicked \/ \E i \in Starts : OnClose(i)

\* C11: an explicit stop or a remote close leaves the engine IDLE with no
\* session handle, no processor held and none still capturing, an empty
\* active-set, empty partial texts and a zero NextStartTime.
C11_StopLeavesIdle ==
  [][StopStep => /\ status' = "IDLE"
                 /\ sessionRef' = 0
                 /\ scriptProcessorRef' = 0
                 /\ capturing' = {}
                 /\ sources' = {}
                 /\ liveUserText' = << >>
                 /\ liveModelText' = << >>
                 /\ nextStartTime' = 0]_vars

\* C12: at most one remote session is open at a time.
C12_OneSession == \A i, j \in Starts : (tr[i] = "open" /\ tr[j] = "open") => i = j

\* C13: while the state is CONNECTING or ACTIVE no step is a start request:
\* no startSession invocation begins.
C13_NoStartWhenBusy ==
  [][(status = "CONNECTING" \/ status = "ACTIVE")
       => /\ starts' = starts
          /\ \A i \in Starts : pc[i] = "none" => pc'[i] = "none"]_vars

C13_Witness ==
  /\ status = "ACTIVE"
  /\ starts = 1
  /\ tr[1] = "open"
  /\ capturing = {1}
  /\ sessionRef = 1

\* C14: a transport error leaves the state ERROR.
C14_ErrorState == [][(\E i \in Starts : OnError(i)) => status' = "ERROR"]_vars

\* C15: when getUserMedia fails, the state becomes ERROR with the message
\* recorded, and that invocation never opens a session, wires a capture
\* callback or sends anything: it has ended.
C15_MicFailure ==
  /\ [][\A i \in Starts :
          (pc[i] = "mic" /\ pc'[i] = "done")
            => (status' = "ERROR" /\ errorMessage' = "mic" /\ tr'[i] = "none")]_vars
  /\ [][\A i \in Starts :
          (pc[i] = "done" /\ tr[i] = "none") => (pc'[i] = "done" /\ tr'[i] = "none")]_vars
  /\ [](\A i \in Starts :
          (pc[i] = "done" /\ tr[i] = "none")
            => (i \notin wired /\ i \notin capturing /\ queued[i] = << >> /\ sent[i] = << >>))

C15_Witness ==
  /\ pc[1] = "done"
  /\ tr[1] = "none"
  /\ status = "ERROR"
  /\ errorMessage = "mic"
  /\ starts = 1

\* The decode awaited by handler h fails in this step
DecodeFails(h) ==
  /\ handlers[h].st = "decode"
  /\ ~DecodeOk(handlers[h].m.parts[handlers[h].k])
  /\ handlers'[h] # handlers[h]

\* C16: a failed decode drops only its own unit: the active-set and
\* NextStartTime are as before, the session stays ACTIVE with its handle, and
\* the handler goes on to the next part of its message.
C16_OnlyUnitDropped ==
  [][\A h \in Hs :
       DecodeFails(h)
         => /\ sources' = sources
            /\ nextStartTime' = nextStartTime
            /\ status' = status
            /\ sessionRef' = sessionRef
            /\ handlers[h].k < Len(handlers[h].m.parts)
                 => handlers'[h] = Waiting(handlers[h].m, handlers[h].k + 1)]_vars

\* The engine as one run of stopSession leaves it
TornDown ==
  /\ status = "IDLE"
  /\ sessionRef = 0
  /\ scriptProcessorRef = 0
  /\ sources = {}
  /\ nextStartTime = 0

\* A step that runs stopSession, whatever triggers it
TeardownStep == StopStep \/ \E i \in Starts : OnError(i)

\* C17: stopSession run again on a torn-down engine, from any trigger,
\* leaves the state, the session handle, the processor, the active-set and
\* NextStartTime as they were, and disconnects and stops nothing more.
C17_Idempotent ==
  [][(TornDown /\ TeardownStep)
       => /\ status' = "IDLE"
          /\ sessionRef' = 0
          /\ scriptProcessorRef' = 0
          /\ sources' = {}
          /\ nextStartTime' = 0
          /\ capturing' = capturing
          /\ stopped' = stopped]_vars

C17_Witness ==
  /\ TornDown
  /\ starts = 1
  /\ 1 \in wired
  /\ errorMessage = "link"
  /\ tr[1] = "closed"

\* The blocks whose frames are in q, in the order of q
RECURSIVE Blocks(_)
Blocks(q) ==
  IF q = << >> THEN << >>
  ELSE IF q[1].kind = "media" THEN << q[1].n >> \o Blocks(Tail(q)) ELSE Blocks(Tail(q))

\* C18: the frames sent on a session are in the order their blocks were
\* captured, and frames are only sent, or waiting to be sent, on a session
\* that has opened.
C18_CaptureOrder ==
  \A i \in Starts :
    /\ \A a, b \in 1..Len(Blocks(sent[i])) : a < b => Blocks(sent[i])[a] < Blocks(sent[i])[b]
    /\ Blocks(sent[i] \o queued[i]) # << >> => i \in wired

C18_Witness == sent[1] = << Greeting, Frame(1), Frame(2) >> /\ queued[1] = << >>

\* How many greetings are in q
RECURSIVE Greetings(_)
Greetings(q) ==
  IF q = << >> THEN 0 ELSE (IF q[1] = Greeting THEN 1 ELSE 0) + Greetings(Tail(q))

\* C19: a session that has opened has exactly one greeting, sent or waiting
\* for the session promise, and a session that has not opened has none; once
\* the promise is fulfilled the greeting has been sent, before any frame.
C19_OneGreeting ==
  \A i \in Starts :
    /\ Greetings(sent[i] \o queued[i]) = IF i \in wired THEN 1 ELSE 0
    /\ Fulfilled(i) => (Greetings(sent[i]) = 1 /\ sent[i][1] = Greeting)

C19_Witness ==
  /\ Fulfilled(1)
  /\ sent[1] = << Greeting, Frame(1) >>
  /\ tr[2] = "connecting"
  /\ sent[2] = << >>

\* C20: from a stop until the next start request (the state is IDLE, a
\* session has been started before and none is open any more) the active-set
\* is empty and NextStartTime is zero.
C20_StopCancels ==
  (status = "IDLE" /\ starts > 0 /\ \A i \in Starts : tr[i] # "open")
    => (sources = {} /\ nextStartTime = 0)

\* A session whose teardown has been processed: its promise was fulfilled, and
\* stopSession has closed it or ran from its own onerror or onclose
Stopped(i) == Fulfilled(i) /\ tr[i] \in {"closing", "closed"}

\* C21: once the stop of a session has been processed, no further audio frame
\* is sent on it, whatever capture callback still fires.
C21_NoSendAfterStop ==
  [][\A i \in Starts : Stopped(i) => Blocks(sent'[i]) = Blocks(sent[i])]_vars

\* C22: while ACTIVE, each accumulator holds every fragment received for its
\* role since the last turn completion or stop, also when one message carried
\* a fragment for each role.
C22_BothRoles ==
  status = "ACTIVE" => (liveUserText = recvUser /\ liveModelText = recvModel)

\* Invocation i of startSession, its microphone granted, ends in this step
EndsAfterMic(i) == pc[i] = "connect" /\ pc'[i] = "done"

\* C23: a start request whose microphone was granted never ends by recording
\* the microphone message, whether its connect fails or succeeds.
C23_MicMessageOnlyForMic ==
  [][\A i \in Starts : (EndsAfterMic(i) /\ errorMessage # "mic") => errorMessage' # "mic"]_vars

\* The session state machine alone: every start, stop and transport callback.
NextConnect ==
  \/ StartSession
  \/ \E i \in Starts : StartResumed(i)
  \/ \E i \in Starts : MicGranted(i)
  \/ \E i \in Starts : MicDenied(i)
  \/ \E i \in Starts : OnOpen(i)
  \/ \E i \in Starts : ConnectResolved(i)
  \/ \E i \in Starts : ConnectRejected(i)
  \/ \E i \in Starts : OnError(i)
  \/ \E i \in Starts : OnClose(i)
  \/ StopClicked
  \/ \E i \in Starts : OnAudioProcess(i)

\* Every await of startSession settles: the resume of the audio contexts,
\* getUserMedia (granted or denied), and the connect (the transport opens,
\* errors or closes, or the session promise rejects).
Settles ==
  \A i \in Starts :
    /\ WF_vars(StartResumed(i))
    /\ WF_vars(MicGranted(i) \/ MicDenied(i))
    /\ WF_vars(OnOpen(i) \/ ConnectRejected(i) \/ OnError(i) \/ OnClose(i))

SpecConnect == Init /\ [][NextConnect]_vars /\ Settles

\* C24: CONNECTING is transient: when every await of startSession settles,
\* a CONNECTING state is followed by a state that is ACTIVE, IDLE or ERROR.
C24_ConnectingEnds == (status = "CONNECTING") ~> (status \in {"ACTIVE", "IDLE", "ERROR"})

C24_Witness ==
  /\ starts = 2
  /\ pc[1] = "done" /\ tr[1] = "closed"
  /\ pc[2] = "done" /\ tr[2] = "open"
  /\ status = "ACTIVE"

====
